---- MODULE Spec2Model ----
(***************************************************************************)
(* A model of the ktti ledger: accounting.py (the Ledger operations and    *)
(* the auto-committing store-transaction scope) and db.py (the Tx / Account*)
(* tables, the content hash and the integrity constraints of the store).   *)
(*                                                                         *)
(* The store is the pair of committed tables (accounts, txs).  Every caller*)
(* owns one Ledger (one session).  A write operation is two steps: Begin   *)
(* runs the body of the `with self:` block up to the flush (the reads and  *)
(* the computation of the new row), Finish is the flush and the commit of  *)
(* __exit__.  An INSERT that conflicts with an uncommitted row of another  *)
(* store transaction waits for that transaction to end, so the outcome of  *)
(* flush + commit is decided against the committed tables at one instant.  *)
(* Money is integer valued here (one canonical representation per value).  *)
(***************************************************************************)
EXTENDS Integers, FiniteSets, Sequences, TLC

VARIABLES accounts, txs, sess

vars == <<accounts, txs, sess>>

(* ------------------------------ bounds -------------------------------- *)

\* Spec: events in the store when the caller may still start a write
MaxTx == 5
\* DeepSpec: the same, for the caller that passes no optional argument
DeepMaxTx == 7
\* ConcSpec: the same, for two callers running concurrently
ConcMaxTx == 4
\* HoldSpec: the same, for one caller that holds, refunds and settles credits
HoldMaxTx == 8
\* GroupSpec: the same, for one caller that passes any event id as group
GroupMaxTx == 6
\* PrevSpec: the same, for one caller that passes any event id as prev_tx_id
PrevMaxTx == 6
\* amounts of pending transactions range over -MaxAmount .. MaxAmount
MaxAmount == 2
\* refund amounts range over -1 .. MaxRefund
MaxRefund == 1
\* idempotency keys a caller passes explicitly: 1 .. MaxKey
MaxKey == 1

Callers == {1, 2}
SeqCallers == {1}
Names == {"andy", "bill"}
Amounts == (0 - MaxAmount) .. MaxAmount
RefundAmounts == (0 - 1) .. MaxRefund
ExplicitKeys == 1 .. MaxKey
\* DeepSpec and ConcSpec: one account
DeepNames == {"andy"}
\* ConcSpec: a credit of 1 or a debit of MaxAmount, refunds of 1 .. MaxRefund
ConcAmounts == {0 - 1, MaxAmount}
ConcRefundAmounts == 1 .. MaxRefund

(* ------------------------- values and records ------------------------- *)

\* Python None / SQL NULL for ids (an id is a non-empty tuple)
NULL == <<>>
\* an idempotency_key argument that was not passed (None)
NoKey == 0
\* a 32-byte value that is the id of no event (b"nonexistent" in the tests)
NonexistentId == <<"nonexistent", "id">>

NEW_ACCOUNT == "NEW_ACCOUNT"
PENDING == "PENDING"
REFUND == "REFUND"
SETTLEMENT == "SETTLEMENT"

\* a Tx object before any attribute is set
NoTx ==
    [id |-> NULL, idempotency_key |-> NoKey, account_id |-> 0, type |-> "",
     amount |-> 0, pending_amount |-> 0,
     group_tx_id |-> NULL, group_prev_tx_id |-> NULL,
     group_prev_pending_amount |-> 0,
     prev_tx_id |-> NULL, prev_current_balance |-> 0,
     prev_available_balance |-> 0,
     current_balance |-> 0, available_balance |-> 0]

\* Tx.tx_hash: SHA-256 of the sorted "key=value" lines of `data`, modelled as
\* the tuple of exactly the hashed values (collision free).  group_tx_id is
\* bound to a local name on line 240 and never put into `data`;
\* group_prev_pending_amount is not in `data` either.
tx_hash(t) ==
    <<t.account_id, t.amount, t.available_balance, t.current_balance,
      t.group_prev_tx_id, t.idempotency_key, t.pending_amount,
      t.prev_available_balance, t.prev_current_balance, t.prev_tx_id, t.type>>

\* Tx._set_transaction_hash
set_transaction_hash(t) == [t EXCEPT !.id = tx_hash(t)]

\* Tx._set_group_tx_root
set_group_tx_root(t) ==
    [t EXCEPT !.group_tx_id = t.id, !.group_prev_tx_id = NULL,
              !.group_prev_pending_amount = 0]

\* Tx.is_debit / Tx.is_credit
is_debit_never(t) == FALSE
is_debit(t) == t.amount > 0
is_credit_always(t) == TRUE
is_credit_never(t) == FALSE
is_credit(t) == t.amount < 0

(* ----------------------- the store's constraints ---------------------- *)

\* CHECK constraints of the tx table, by name
tx_require_prev_tx_id(t) == t.type = NEW_ACCOUNT \/ t.prev_tx_id # NULL
tx_require_group_prev_tx_id(t) ==
    t.type = NEW_ACCOUNT \/ t.type = PENDING \/ t.group_prev_tx_id # NULL
tx_require_group_tx_id(t) == t.type = NEW_ACCOUNT \/ t.group_tx_id # NULL
tx_positive_current_balance(t) == t.current_balance >= 0
tx_positive_available_balance(t) == t.available_balance >= 0
tx_available_always_lt_current_dropped(t) == TRUE
tx_available_always_lt_current(t) == t.available_balance <= t.current_balance
tx_new_account_starts_with_zero_balance(t) ==
    ~(t.type = NEW_ACCOUNT)
    \/ (t.amount = 0 /\ t.pending_amount = 0 /\ t.current_balance = 0
        /\ t.available_balance = 0 /\ t.prev_current_balance = 0
        /\ t.prev_available_balance = 0)
tx_pending_amount_equals_amount(t) ==
    ~(t.type = SETTLEMENT) \/ t.amount = t.pending_amount
tx_pending_debit_does_not_change_balance(t) ==
    ~(t.type = PENDING /\ t.amount > 0)
    \/ (t.pending_amount = t.amount
        /\ t.current_balance = t.prev_current_balance
        /\ t.available_balance = t.prev_available_balance)
tx_pending_credit_reduces_available_balance(t) ==
    ~(t.type = PENDING /\ t.amount < 0)
    \/ (t.pending_amount = t.amount
        /\ t.current_balance = t.prev_current_balance
        /\ t.available_balance = t.prev_available_balance + t.amount)
tx_refund_debit_increases_balances(t) ==
    ~(t.type = SETTLEMENT /\ t.amount > 0)
    \/ (t.current_balance = t.prev_current_balance + t.pending_amount
        /\ t.available_balance = t.prev_available_balance + t.pending_amount)
tx_refund_credit_reduces_current_balance(t) ==
    ~(t.type = SETTLEMENT /\ t.amount < 0)
    \/ (t.current_balance = t.prev_current_balance + t.pending_amount
        /\ t.available_balance = t.prev_available_balance)
tx_refund_reduces_pending_amount(t) ==
    ~(t.type = REFUND)
    \/ (t.amount > 0 /\ t.pending_amount <= 0
        /\ t.pending_amount = t.group_prev_pending_amount + t.amount)

\* the CHECK constraints a row violates
CheckViolations(t) ==
    {c \in {"tx_require_prev_tx_id", "tx_require_group_prev_tx_id",
            "tx_require_group_tx_id", "tx_positive_current_balance",
            "tx_positive_available_balance", "tx_available_always_lt_current",
            "tx_new_account_starts_with_zero_balance",
            "tx_pending_amount_equals_amount",
            "tx_pending_debit_does_not_change_balance",
            "tx_pending_credit_reduces_available_balance",
            "tx_refund_debit_increases_balances",
            "tx_refund_credit_reduces_current_balance",
            "tx_refund_reduces_pending_amount"} :
        CASE c = "tx_require_prev_tx_id" -> ~tx_require_prev_tx_id(t)
          [] c = "tx_require_group_prev_tx_id" -> ~tx_require_group_prev_tx_id(t)
          [] c = "tx_require_group_tx_id" -> ~tx_require_group_tx_id(t)
          [] c = "tx_positive_current_balance" -> ~tx_positive_current_balance(t)
          [] c = "tx_positive_available_balance" -> ~tx_positive_available_balance(t)
          [] c = "tx_available_always_lt_current" -> ~tx_available_always_lt_current(t)
          [] c = "tx_new_account_starts_with_zero_balance" ->
                ~tx_new_account_starts_with_zero_balance(t)
          [] c = "tx_pending_amount_equals_amount" -> ~tx_pending_amount_equals_amount(t)
          [] c = "tx_pending_debit_does_not_change_balance" ->
                ~tx_pending_debit_does_not_change_balance(t)
          [] c = "tx_pending_credit_reduces_available_balance" ->
                ~tx_pending_credit_reduces_available_balance(t)
          [] c = "tx_refund_debit_increases_balances" ->
                ~tx_refund_debit_increases_balances(t)
          [] c = "tx_refund_credit_reduces_current_balance" ->
                ~tx_refund_credit_reduces_current_balance(t)
          [] OTHER -> ~tx_refund_reduces_pending_amount(t)}

\* primary key and unique=True columns of tx (NULLs never collide)
tx_pkey(t, rows) == \A r \in rows : r.id # t.id
tx_idempotency_key_key_dropped(t, rows) == TRUE
tx_idempotency_key_key(t, rows) ==
    \A r \in rows : r.idempotency_key # t.idempotency_key
tx_prev_tx_id_key_dropped(t, rows) == TRUE
tx_prev_tx_id_key(t, rows) ==
    t.prev_tx_id = NULL \/ \A r \in rows : r.prev_tx_id # t.prev_tx_id

\* the two partial unique indexes
tx_only_one_new_account_tx_per_account_id_dropped(t, rows) == TRUE
tx_only_one_new_account_tx_per_account_id(t, rows) ==
    t.type = NEW_ACCOUNT
    => \A r \in rows : ~(r.type = NEW_ACCOUNT /\ r.account_id = t.account_id)
tx_only_one_settlement_per_pending_dropped(t, rows) == TRUE
tx_only_one_settlement_per_pending(t, rows) ==
    (t.type = SETTLEMENT /\ t.group_tx_id # NULL)
    => \A r \in rows : ~(r.type = SETTLEMENT /\ r.group_tx_id = t.group_tx_id)

\* the UNIQUE constraints and unique indexes a row violates
UniqueViolations(t, rows) ==
    {c \in {"tx_pkey", "tx_idempotency_key_key", "tx_prev_tx_id_key",
            "tx_only_one_new_account_tx_per_account_id",
            "tx_only_one_settlement_per_pending"} :
        CASE c = "tx_pkey" -> ~tx_pkey(t, rows)
          [] c = "tx_idempotency_key_key" -> ~tx_idempotency_key_key(t, rows)
          [] c = "tx_prev_tx_id_key" -> ~tx_prev_tx_id_key(t, rows)
          [] c = "tx_only_one_new_account_tx_per_account_id" ->
                ~tx_only_one_new_account_tx_per_account_id(t, rows)
          [] OTHER -> ~tx_only_one_settlement_per_pending(t, rows)}

\* FOREIGN KEY constraints (MATCH SIMPLE: a NULL column switches the check
\* off; the referenced row may be the inserted row itself)
tx_account_id_fkey(t, accs) == \E a \in accs : a.id = t.account_id
tx_account_id_prev_tx_id_fkey_dropped(t, rows) == TRUE
tx_account_id_prev_tx_id_fkey(t, rows) ==
    t.prev_tx_id = NULL
    \/ \E r \in rows \cup {t} :
          r.account_id = t.account_id /\ r.id = t.prev_tx_id
tx_account_id_group_tx_id_group_prev_tx_id_fkey(t, rows) ==
    t.group_tx_id = NULL \/ t.group_prev_tx_id = NULL
    \/ \E r \in rows \cup {t} :
          /\ r.account_id = t.account_id
          /\ r.group_tx_id = t.group_tx_id
          /\ r.id = t.group_prev_tx_id
tx_group_prev_tx_id_group_prev_pending_amount_fkey(t, rows) ==
    t.group_prev_tx_id = NULL
    \/ \E r \in rows \cup {t} :
          r.id = t.group_prev_tx_id
          /\ r.pending_amount = t.group_prev_pending_amount
tx_prev_tx_id_prev_current_balance_prev_available_balance_fkey(t, rows) ==
    t.prev_tx_id = NULL
    \/ \E r \in rows \cup {t} :
          /\ r.id = t.prev_tx_id
          /\ r.current_balance = t.prev_current_balance
          /\ r.available_balance = t.prev_available_balance

\* the FOREIGN KEY constraints a row violates
ForeignKeyViolations(t, rows, accs) ==
    {c \in {"tx_account_id_fkey", "tx_account_id_prev_tx_id_fkey",
            "tx_account_id_group_tx_id_group_prev_tx_id_fkey",
            "tx_group_prev_tx_id_group_prev_pending_amount_fkey",
            "tx_prev_tx_id_prev_current_balance_prev_available_balance_fkey"} :
        CASE c = "tx_account_id_fkey" -> ~tx_account_id_fkey(t, accs)
          [] c = "tx_account_id_prev_tx_id_fkey" ->
                ~tx_account_id_prev_tx_id_fkey(t, rows)
          [] c = "tx_account_id_group_tx_id_group_prev_tx_id_fkey" ->
                ~tx_account_id_group_tx_id_group_prev_tx_id_fkey(t, rows)
          [] c = "tx_group_prev_tx_id_group_prev_pending_amount_fkey" ->
                ~tx_group_prev_tx_id_group_prev_pending_amount_fkey(t, rows)
          [] OTHER ->
                ~tx_prev_tx_id_prev_current_balance_prev_available_balance_fkey(t, rows)}

\* INSERT of a tx row: every constraint the row violates (none: accepted)
TxViolations(t, rows, accs) ==
    CheckViolations(t) \cup UniqueViolations(t, rows)
        \cup ForeignKeyViolations(t, rows, accs)

\* INSERT of an account row: Account.name is unique
account_name_key_dropped(a, accs) == TRUE
account_name_key(a, accs) == \A b \in accs : b.name # a.name


(* ------------------------------ Ledger -------------------------------- *)

TheOne(S) == CHOOSE x \in S : TRUE

\* uuid4(): a value that no event and no object in flight carries; generated
\* keys are the negative numbers, keys passed by callers the positive ones
uuid4(used) ==
    0 - (CHOOSE n \in 1 .. (Cardinality(used) + 1) :
            /\ (0 - n) \notin used
            /\ \A m \in 1 .. (n - 1) : (0 - m) \in used)

\* Ledger._ensure_idempotency_key
ensure_idempotency_key(idempotency_key, used) ==
    IF idempotency_key = NoKey THEN uuid4(used) ELSE idempotency_key

\* the outcome of the body of a `with self:` block: the exception raised in
\* it ("" for none) and the object handed to the flush
Raise(e) == [exc |-> e, obj |-> NoTx]
Flush(t) == [exc |-> "", obj |-> t]

\* Ledger.get_latest_transaction: `latest_tx, = tx_ids - prev_tx_ids` raises
\* ValueError unless the difference has exactly one element
get_latest_transaction_first(rows, account_id) ==
    LET first == {r \in rows : r.account_id = account_id /\ r.prev_tx_id = NULL}
    IN  IF Cardinality(first) = 1
        THEN [found |-> TRUE, tx |-> TheOne(first)]
        ELSE [found |-> FALSE, tx |-> NoTx]
get_latest_transaction(rows, account_id) ==
    LET mine == {r \in rows : r.account_id = account_id}
        tx_ids == {r.id : r \in mine}
        prev_tx_ids == {r.prev_tx_id : r \in mine}
        latest == tx_ids \ prev_tx_ids
    IN  IF Cardinality(latest) = 1
        THEN [found |-> TRUE, tx |-> TheOne({r \in rows : r.id = TheOne(latest)})]
        ELSE [found |-> FALSE, tx |-> NoTx]

\* Ledger.get_latest_group_transaction
get_latest_group_transaction_root(rows, group_tx) ==
    [found |-> TRUE, tx |-> group_tx]
get_latest_group_transaction(rows, group_tx) ==
    LET mine == {r \in rows : r.group_tx_id = group_tx.id}
        tx_ids == {r.id : r \in mine}
        prev_tx_ids == {r.group_prev_tx_id : r \in mine}
        latest == tx_ids \ prev_tx_ids
    IN  IF Cardinality(latest) = 1
        THEN [found |-> TRUE, tx |-> TheOne({r \in rows : r.id = TheOne(latest)})]
        ELSE [found |-> FALSE, tx |-> NoTx]

\* Ledger._ensure_prev_tx_id, followed by the session.get of _add_to_account:
\* the exception raised ("" for none) and the row prev_tx_id names
ensure_prev_tx(rows, account_id, prev_tx_id) ==
    LET head == get_latest_transaction(rows, account_id)
        id == IF prev_tx_id = NULL THEN tx_hash(head.tx) ELSE prev_tx_id
        hit == {r \in rows : r.id = id}
    IN  IF prev_tx_id = NULL /\ ~head.found
        THEN [exc |-> "ValueError: not enough values to unpack", tx |-> NoTx]
        ELSE IF prev_tx_id = NULL /\ tx_hash(head.tx) # head.tx.id
        THEN [exc |-> "AssertionError", tx |-> NoTx]
        ELSE IF hit = {}
        THEN [exc |-> "AssertionError", tx |-> NoTx]
        ELSE [exc |-> "", tx |-> TheOne(hit)]

\* Ledger._get_group_tx
get_group_tx_of_any_type(rows, group_tx_id) ==
    LET hit == {r \in rows : r.id = group_tx_id}
    IN  IF hit = {}
        THEN [exc |-> "ValueError: Transaction group does not exist.", tx |-> NoTx]
        ELSE [exc |-> "", tx |-> TheOne(hit)]
get_group_tx(rows, group_tx_id) ==
    LET hit == {r \in rows : r.id = group_tx_id}
    IN  IF hit = {}
        THEN [exc |-> "ValueError: Transaction group does not exist.", tx |-> NoTx]
        ELSE IF TheOne(hit).type # PENDING
        THEN [exc |-> "ValueError: Transaction is not a Group ID.", tx |-> NoTx]
        ELSE [exc |-> "", tx |-> TheOne(hit)]

\* Ledger._add_to_account
add_to_account_without_prev_balances(obj, prev_tx) ==
    [obj EXCEPT !.prev_tx_id = prev_tx.id,
                !.current_balance = prev_tx.current_balance,
                !.available_balance = prev_tx.available_balance]
add_to_account_of_prev_tx(obj, prev_tx) ==
    [obj EXCEPT !.account_id = prev_tx.account_id,
                !.prev_tx_id = prev_tx.id,
                !.prev_current_balance = prev_tx.current_balance,
                !.prev_available_balance = prev_tx.available_balance,
                !.current_balance = prev_tx.current_balance,
                !.available_balance = prev_tx.available_balance]
add_to_account(obj, prev_tx) ==
    [obj EXCEPT !.prev_tx_id = prev_tx.id,
                !.prev_current_balance = prev_tx.current_balance,
                !.prev_available_balance = prev_tx.available_balance,
                !.current_balance = prev_tx.current_balance,
                !.available_balance = prev_tx.available_balance]

\* Ledger._add_to_group
add_to_group_without_prev_pending_amount(obj, group_tx, group_latest_tx) ==
    [obj EXCEPT !.group_tx_id = group_tx.id,
                !.group_prev_tx_id = group_latest_tx.id]
add_to_group(obj, group_tx, group_latest_tx) ==
    [obj EXCEPT !.group_tx_id = group_tx.id,
                !.group_prev_tx_id = group_latest_tx.id,
                !.group_prev_pending_amount = group_latest_tx.pending_amount]

\* Ledger.create_pending_transaction: `if obj.available_balance < 0`, the
\* test that raises Ledger.InsufficientFund
insufficient_fund_unchecked(obj) == FALSE
insufficient_fund_at_zero(obj) == obj.available_balance <= 0
insufficient_fund(obj) == obj.available_balance < 0

\* Ledger.create_pending_transaction, the `with self:` block up to the flush
create_pending_transaction(rows, account_id, amount, idempotency_key, prev_tx_id) ==
    LET prev == ensure_prev_tx(rows, account_id, prev_tx_id)
        new == [NoTx EXCEPT !.idempotency_key = idempotency_key,
                            !.account_id = account_id, !.type = PENDING,
                            !.amount = amount, !.pending_amount = amount]
        linked == add_to_account(new, prev.tx)
        obj == IF is_credit(linked)
               THEN [linked EXCEPT !.available_balance = @ + amount]
               ELSE linked
    IN  IF prev.exc # "" THEN Raise(prev.exc)
        ELSE IF insufficient_fund(obj) THEN Raise("InsufficientFund")
        ELSE Flush(set_group_tx_root(set_transaction_hash(obj)))

\* Ledger.settle_transaction, the `with self:` block up to the flush
settle_transaction(rows, group_tx_id, idempotency_key, prev_tx_id) ==
    LET group == get_group_tx(rows, group_tx_id)
        group_tx == group.tx
        prev == ensure_prev_tx(rows, group_tx.account_id, prev_tx_id)
        new == [NoTx EXCEPT !.idempotency_key = idempotency_key,
                            !.account_id = group_tx.account_id,
                            !.type = SETTLEMENT]
        group_latest == get_latest_group_transaction(rows, group_tx)
        linked == add_to_group(add_to_account(new, prev.tx), group_tx,
                               group_latest.tx)
        settled_amount == group_latest.tx.pending_amount
        obj == [linked EXCEPT
                  !.amount = settled_amount,
                  !.pending_amount = settled_amount,
                  !.current_balance = @ + settled_amount,
                  !.available_balance =
                      IF is_debit(group_tx) THEN @ + settled_amount ELSE @]
    IN  IF group.exc # "" THEN Raise(group.exc)
        ELSE IF prev.exc # "" THEN Raise(prev.exc)
        ELSE IF ~group_latest.found
        THEN Raise("ValueError: not enough values to unpack")
        ELSE Flush(set_transaction_hash(obj))

\* Ledger.refund_pending_transaction: `if not group_tx.is_credit`, the test
\* that raises ValueError("Can only refund credit transaction.")
not_a_credit_group_unchecked(group_tx) == FALSE
not_a_credit_group(group_tx) == ~is_credit(group_tx)

\* Ledger.refund_pending_transaction: `assert amount` and `if amount <= 0`,
\* the two checks before the `with self:` block; "" when both pass
invalid_refund_amount_unchecked(amount) == ""
invalid_refund_amount(amount) ==
    IF amount = 0 THEN "AssertionError"
    ELSE IF amount <= 0 THEN "ValueError: Refund amount must be positive"
    ELSE ""

\* Ledger.refund_pending_transaction: the two checks before the `with self:`
\* block, then the block up to the flush
refund_pending_transaction_raising_current(rows, group_tx_id, amount, idempotency_key, prev_tx_id) ==
    LET group == get_group_tx(rows, group_tx_id)
        group_tx == group.tx
        prev == ensure_prev_tx(rows, group_tx.account_id, prev_tx_id)
        new == [NoTx EXCEPT !.idempotency_key = idempotency_key,
                            !.account_id = group_tx.account_id,
                            !.type = REFUND, !.amount = amount]
        group_latest == get_latest_group_transaction(rows, group_tx)
        linked == add_to_group(add_to_account(new, prev.tx), group_tx,
                               group_latest.tx)
        obj == [linked EXCEPT
                  !.pending_amount = linked.group_prev_pending_amount + amount,
                  !.current_balance = @ + amount,
                  !.available_balance = @ + amount]
    IN  IF invalid_refund_amount(amount) # ""
        THEN Raise(invalid_refund_amount(amount))
        ELSE IF group.exc # "" THEN Raise(group.exc)
        ELSE IF prev.exc # "" THEN Raise(prev.exc)
        ELSE IF not_a_credit_group(group_tx)
        THEN Raise("ValueError: Can only refund credit transaction.")
        ELSE IF ~group_latest.found
        THEN Raise("ValueError: not enough values to unpack")
        ELSE Flush(set_transaction_hash(obj))
refund_pending_transaction(rows, group_tx_id, amount, idempotency_key, prev_tx_id) ==
    LET group == get_group_tx(rows, group_tx_id)
        group_tx == group.tx
        prev == ensure_prev_tx(rows, group_tx.account_id, prev_tx_id)
        new == [NoTx EXCEPT !.idempotency_key = idempotency_key,
                            !.account_id = group_tx.account_id,
                            !.type = REFUND, !.amount = amount]
        group_latest == get_latest_group_transaction(rows, group_tx)
        linked == add_to_group(add_to_account(new, prev.tx), group_tx,
                               group_latest.tx)
        obj == [linked EXCEPT
                  !.pending_amount = linked.group_prev_pending_amount + amount,
                  !.available_balance = @ + amount]
    IN  IF invalid_refund_amount(amount) # ""
        THEN Raise(invalid_refund_amount(amount))
        ELSE IF group.exc # "" THEN Raise(group.exc)
        ELSE IF prev.exc # "" THEN Raise(prev.exc)
        ELSE IF not_a_credit_group(group_tx)
        THEN Raise("ValueError: Can only refund credit transaction.")
        ELSE IF ~group_latest.found
        THEN Raise("ValueError: not enough values to unpack")
        ELSE Flush(set_transaction_hash(obj))

\* Ledger.get_balance: the balances of the head; ValueError when the account
\* has no event
get_balance(rows, account_id) ==
    LET head == get_latest_transaction(rows, account_id)
    IN  IF head.found
        THEN [exc |-> "", current |-> head.tx.current_balance,
              available |-> head.tx.available_balance]
        ELSE [exc |-> "ValueError: not enough values to unpack",
              current |-> 0, available |-> 0]

\* Tx.next_tx: the event that names `it` as its predecessor, in the account
\* of `it` (the relationship on prev_tx_id, account_id); none: the empty set
next_tx(rows, it) ==
    {r \in rows : r.prev_tx_id = it.id /\ r.account_id = it.account_id}

\* Ledger.list_transactions.iterate_sorted_chain: `start` and the events
\* reached from it along next_tx
RECURSIVE iterate_sorted_chain(_, _)
iterate_sorted_chain(rows, start) ==
    IF next_tx(rows, start) = {} THEN <<start>>
    ELSE <<start>> \o iterate_sorted_chain(rows, TheOne(next_tx(rows, start)))

\* Ledger.list_transactions: ValueError unless the account has exactly one
\* NEW_ACCOUNT event, else the chain that starts at it
list_transactions(rows, account_id) ==
    LET results == {r \in rows : r.account_id = account_id}
        new_account_tx == {r \in results : r.type = NEW_ACCOUNT}
    IN  IF Cardinality(new_account_tx) = 1
        THEN [exc |-> "",
              txs |-> iterate_sorted_chain(rows, TheOne(new_account_tx))]
        ELSE [exc |-> "ValueError: not enough values to unpack", txs |-> <<>>]

\* the NEW_ACCOUNT event create_account builds for a flushed account
new_account_tx(account_id, idempotency_key) ==
    set_transaction_hash(
        [NoTx EXCEPT !.idempotency_key = idempotency_key,
                     !.account_id = account_id, !.type = NEW_ACCOUNT])

\* AutocommitSessionTransaction.__exit__: the committed tables after the
\* scope, given the exception that ends it ("" for none; an exception raised
\* by the commit itself counts) and the tables as the session wrote them
exit_without_rollback(exc, committed, work) == work
exit_without_commit(exc, committed, work) == committed
exit_rollback_to_empty(exc, committed, work) ==
    IF exc = "" THEN work ELSE [accounts |-> {}, txs |-> {}]
exit(exc, committed, work) == IF exc = "" THEN work ELSE committed


(* ------------------------------ actions ------------------------------- *)

NoArgs ==
    [name |-> "", account_id |-> 0, amount |-> 0, group_tx_id |-> NULL,
     idempotency_key |-> NoKey, prev_tx_id |-> NULL]

\* a caller with no call made yet
Idle ==
    [pc |-> "idle", op |-> "", args |-> NoArgs, obj |-> NoTx, exc |-> "",
     violated |-> {}, value |-> NULL, seen |-> 0]

\* a call whose `with self:` block reached the flush: in flight
Begun(op, args, obj) ==
    [pc |-> "begun", op |-> op, args |-> args, obj |-> obj, exc |-> "",
     violated |-> {}, value |-> NULL, seen |-> Cardinality(txs)]

\* a call that has returned `value` (exc = "") or raised exc; `violated` names
\* the constraints of the store the rejected row violates
Done(op, args, obj, exc, violated, value, seen) ==
    [pc |-> "done", op |-> op, args |-> args, obj |-> obj, exc |-> exc,
     violated |-> violated, value |-> value, seen |-> seen]

\* idempotency keys carried by an event or by an object in flight
UsedKeys ==
    {t.idempotency_key : t \in txs}
        \cup {sess[c].obj.idempotency_key : c \in Callers}

\* the values a caller passes.  idempotency_key: None, or with `keys` an
\* explicit key.  prev_tx_id: None, or with `prevs` the id of any event or an
\* id that names no event.  group_tx_id: the id of a PENDING event, or with
\* `groups` the id of any event or an id that names no event.
KeyArgs(calls) == IF calls.keys THEN {NoKey} \cup ExplicitKeys ELSE {NoKey}
PrevArgs(calls) ==
    IF calls.prevs THEN {NULL, NonexistentId} \cup {t.id : t \in txs}
    ELSE {NULL}
GroupArgs(calls) ==
    IF calls.groups THEN {NonexistentId} \cup {t.id : t \in txs}
    ELSE {t.id : t \in {r \in txs : r.type = PENDING}}

\* what the callers of a specification do: the bound on the store, the
\* names, the amounts and the optional arguments they pass
SeqCalls ==
    [bound |-> MaxTx, names |-> Names, amounts |-> Amounts,
     refunds |-> RefundAmounts, keys |-> TRUE, prevs |-> TRUE,
     groups |-> TRUE]
DeepCalls ==
    [bound |-> DeepMaxTx, names |-> DeepNames, amounts |-> Amounts,
     refunds |-> RefundAmounts, keys |-> FALSE, prevs |-> FALSE,
     groups |-> FALSE]
ConcCalls ==
    [bound |-> ConcMaxTx, names |-> DeepNames, amounts |-> ConcAmounts,
     refunds |-> ConcRefundAmounts, keys |-> TRUE, prevs |-> TRUE,
     groups |-> FALSE]

HoldCalls ==
    [bound |-> HoldMaxTx, names |-> DeepNames, amounts |-> ConcAmounts,
     refunds |-> ConcRefundAmounts, keys |-> FALSE, prevs |-> FALSE,
     groups |-> FALSE]

GroupCalls ==
    [bound |-> GroupMaxTx, names |-> DeepNames, amounts |-> ConcAmounts,
     refunds |-> RefundAmounts, keys |-> FALSE, prevs |-> FALSE,
     groups |-> TRUE]

PrevCalls ==
    [bound |-> PrevMaxTx, names |-> Names, amounts |-> ConcAmounts,
     refunds |-> ConcRefundAmounts, keys |-> FALSE, prevs |-> TRUE,
     groups |-> FALSE]

Init ==
    /\ accounts = {}
    /\ txs = {}
    /\ sess = [c \in Callers |-> Idle]

\* the caller takes the result of its last call
Return(c) ==
    /\ sess[c].pc = "done"
    /\ sess' = [sess EXCEPT ![c] = Idle]
    /\ UNCHANGED <<accounts, txs>>

\* the block of a write operation ran up to its flush, or raised
Entered(c, op, args, r) ==
    /\ sess' = [sess EXCEPT ![c] =
                  IF r.exc = ""
                  THEN Begun(op, args, r.obj)
                  ELSE Done(op, args, NoTx, r.exc, {}, NULL, Cardinality(txs))]
    /\ txs' = exit(r.exc, [accounts |-> accounts, txs |-> txs],
                   [accounts |-> accounts, txs |-> txs]).txs
    /\ UNCHANGED accounts

\* Ledger.create_account: the whole call.  The account row is flushed inside
\* the block, the NEW_ACCOUNT event is inserted by the commit of __exit__.
CreateAccount(c, calls) ==
    /\ sess[c].pc = "idle"
    /\ Cardinality(txs) < calls.bound
    /\ \E name \in calls.names, key \in KeyArgs(calls) :
         LET idempotency_key == ensure_idempotency_key(key, UsedKeys)
             args == [NoArgs EXCEPT !.name = name, !.idempotency_key = key]
             obj == [id |-> Cardinality(accounts) + 1, name |-> name]
             committed == [accounts |-> accounts, txs |-> txs]
             flushed == accounts \cup {obj}
             tx == new_account_tx(obj.id, idempotency_key)
             violated == IF ~account_name_key(obj, accounts)
                         THEN {"account_name_key"}
                         ELSE TxViolations(tx, txs, flushed)
             exc == IF violated = {} THEN "" ELSE "IntegrityError"
             work == IF ~account_name_key(obj, accounts) THEN committed
                     ELSE IF violated # {}
                     THEN [accounts |-> flushed, txs |-> txs]
                     ELSE [accounts |-> flushed, txs |-> txs \cup {tx}]
             after == exit(exc, committed, work)
         IN  /\ accounts' = after.accounts
             /\ txs' = after.txs
             /\ sess' = [sess EXCEPT ![c] =
                           Done("create_account", args,
                                IF account_name_key(obj, accounts) THEN tx ELSE NoTx,
                                exc, violated,
                                IF exc = "" THEN <<obj.id>> ELSE NULL,
                                Cardinality(txs))]

\* Ledger.create_pending_transaction is called
BeginPending(c, calls) ==
    /\ sess[c].pc = "idle"
    /\ Cardinality(txs) < calls.bound
    /\ \E a \in accounts, amount \in calls.amounts,
          key \in KeyArgs(calls), prev \in PrevArgs(calls) :
         Entered(c, "create_pending_transaction",
                 [NoArgs EXCEPT !.account_id = a.id, !.amount = amount,
                                !.idempotency_key = key, !.prev_tx_id = prev],
                 create_pending_transaction(
                     txs, a.id, amount,
                     ensure_idempotency_key(key, UsedKeys), prev))

\* Ledger.settle_transaction is called
BeginSettle(c, calls) ==
    /\ sess[c].pc = "idle"
    /\ Cardinality(txs) < calls.bound
    /\ \E g \in GroupArgs(calls), key \in KeyArgs(calls),
          prev \in PrevArgs(calls) :
         Entered(c, "settle_transaction",
                 [NoArgs EXCEPT !.group_tx_id = g, !.idempotency_key = key,
                                !.prev_tx_id = prev],
                 settle_transaction(
                     txs, g, ensure_idempotency_key(key, UsedKeys), prev))

\* Ledger.refund_pending_transaction is called
BeginRefund(c, calls) ==
    /\ sess[c].pc = "idle"
    /\ Cardinality(txs) < calls.bound
    /\ \E g \in GroupArgs(calls), amount \in calls.refunds,
          key \in KeyArgs(calls), prev \in PrevArgs(calls) :
         Entered(c, "refund_pending_transaction",
                 [NoArgs EXCEPT !.group_tx_id = g, !.amount = amount,
                                !.idempotency_key = key, !.prev_tx_id = prev],
                 refund_pending_transaction(
                     txs, g, amount,
                     ensure_idempotency_key(key, UsedKeys), prev))

\* the end of a write operation: session.flush() inserts the row, the call
\* returns TransactionId(obj.tx_hash) (which asserts id = hash) and __exit__
\* commits; a rejected insert raises IntegrityError and __exit__ rolls back
Finish(c) ==
    /\ sess[c].pc = "begun"
    /\ LET obj == sess[c].obj
           committed == [accounts |-> accounts, txs |-> txs]
           violated == TxViolations(obj, txs, accounts)
           exc == IF violated # {} THEN "IntegrityError"
                  ELSE IF tx_hash(obj) # obj.id THEN "AssertionError"
                  ELSE ""
           work == IF violated = {}
                   THEN [accounts |-> accounts, txs |-> txs \cup {obj}]
                   ELSE committed
           after == exit(exc, committed, work)
       IN  /\ txs' = after.txs
           /\ accounts' = after.accounts
           /\ sess' = [sess EXCEPT ![c] =
                         Done(sess[c].op, sess[c].args, obj, exc, violated,
                              IF exc = "" THEN tx_hash(obj) ELSE NULL,
                              sess[c].seen)]

Step(c, calls) ==
    \/ CreateAccount(c, calls)
    \/ BeginPending(c, calls)
    \/ BeginSettle(c, calls)
    \/ BeginRefund(c, calls)
    \/ Finish(c)
    \/ Return(c)

\* one caller, passing any arguments: every call ends before the next begins
Next == \E c \in SeqCallers : Step(c, SeqCalls)

Spec == Init /\ [][Next]_vars

\* one caller that passes no optional argument, on one account
DeepNext == \E c \in SeqCallers : Step(c, DeepCalls)

DeepSpec == Init /\ [][DeepNext]_vars

\* two callers, each in a store transaction of its own
ConcNext == \E c \in Callers : Step(c, ConcCalls)

ConcSpec == Init /\ [][ConcNext]_vars

\* one caller that passes no optional argument, a debit of MaxAmount or
\* credits of 1, refunds of 1 .. MaxRefund, on one account
HoldNext == \E c \in SeqCallers : Step(c, HoldCalls)

HoldSpec == Init /\ [][HoldNext]_vars

\* one caller on one account that passes the id of any event, or an id of no
\* event, as group_tx_id, and no other optional argument
GroupNext == \E c \in SeqCallers : Step(c, GroupCalls)

GroupSpec == Init /\ [][GroupNext]_vars

\* one caller on two accounts that passes the id of any event, or an id of no
\* event, as prev_tx_id, and no other optional argument
PrevNext == \E c \in SeqCallers : Step(c, PrevCalls)

PrevSpec == Init /\ [][PrevNext]_vars


(* ------------------------------- claims ------------------------------- *)

\* caller c's call ends in this step
Completes(c) == sess[c].pc # "done" /\ sess'[c].pc = "done"
\* the call that ends is an append (pending, settle or refund)
Appends == {"create_pending_transaction", "settle_transaction",
            "refund_pending_transaction"}
EventsOf(rows, account_id) == {t \in rows : t.account_id = account_id}
GroupOf(rows, g) == {t \in rows : t.group_tx_id = g}
Settled(rows, g) == \E t \in rows : t.type = SETTLEMENT /\ t.group_tx_id = g
\* the heads of an account's chain: events no event of the account names as
\* its predecessor
HeadsOf(rows, account_id) ==
    {t \in EventsOf(rows, account_id) :
        \A r \in EventsOf(rows, account_id) : r.prev_tx_id # t.id}
\* the account an append is made to: the account_id argument, or the account
\* of the PENDING event group_tx_id names (0: there is none)
TargetAccount(rows, s) ==
    IF s.op = "create_pending_transaction" THEN s.args.account_id
    ELSE IF \E t \in rows : t.id = s.args.group_tx_id /\ t.type = PENDING
    THEN TheOne({t \in rows : t.id = s.args.group_tx_id}).account_id
    ELSE 0

\* C1: every persisted event has current_balance >= available_balance >= 0,
\* after any sequence of successful and failed calls.
C1_BalancesOrdered ==
    \A t \in txs :
        t.current_balance >= t.available_balance /\ t.available_balance >= 0

\* C1 witness: a refund and a settlement are persisted, an event holds back
\* part of the balance, and the last call failed.
C1_Witness ==
    /\ \E t \in txs : t.type = REFUND
    /\ \E t \in txs : t.type = SETTLEMENT
    /\ \E t \in txs : t.current_balance > t.available_balance
    /\ sess[1].pc = "done" /\ sess[1].exc # ""

\* C2: the events of each account form one linear chain along prev_tx_id:
\* one NEW_ACCOUNT event, the only one without predecessor; every other
\* event's predecessor is an event of the account; no two events share a
\* prev_tx_id; exactly one head.  Also with interleaved callers.
C2_AccountChainLinear ==
    /\ \A t \in txs : \E a \in accounts : a.id = t.account_id
    /\ \A a \in accounts :
        LET mine == EventsOf(txs, a.id)
        IN  /\ Cardinality({t \in mine : t.type = NEW_ACCOUNT}) = 1
            /\ \A t \in mine : t.prev_tx_id = NULL <=> t.type = NEW_ACCOUNT
            /\ \A t \in mine :
                 t.prev_tx_id # NULL => \E r \in mine : r.id = t.prev_tx_id
            /\ Cardinality(HeadsOf(txs, a.id)) = 1
    /\ \A t, r \in txs :
         (t.prev_tx_id # NULL /\ t.prev_tx_id = r.prev_tx_id) => t = r

\* C2 witness: two callers raced to extend the same head, one append is in
\* the chain of three events and the other was rejected.
C2_Witness ==
    /\ Cardinality(txs) = 3
    /\ sess[1].pc = "done" /\ sess[2].pc = "done"
    /\ sess[1].obj.prev_tx_id # NULL
    /\ sess[1].obj.prev_tx_id = sess[2].obj.prev_tx_id
    /\ sess[1].seen = sess[2].seen
    /\ sess[1].exc = "" /\ sess[2].exc = "IntegrityError"

\* C3: each group holds exactly one PENDING event, its root (group_tx_id =
\* id, no group predecessor), at most one SETTLEMENT and otherwise REFUNDs,
\* and is one linear chain along group_prev_tx_id with one head.
C3_GroupChainLinear ==
    /\ \A t \in txs : t.group_tx_id = NULL <=> t.type = NEW_ACCOUNT
    /\ \A g \in {t.group_tx_id : t \in txs} \ {NULL} :
        LET mine == GroupOf(txs, g)
        IN  /\ Cardinality({t \in mine : t.type = PENDING}) = 1
            /\ \A t \in mine :
                 t.type = PENDING => (t.id = g /\ t.group_prev_tx_id = NULL)
            /\ Cardinality({t \in mine : t.type = SETTLEMENT}) <= 1
            /\ \A t \in mine : t.type \in {PENDING, REFUND, SETTLEMENT}
            /\ \A t \in mine :
                 t.type # PENDING => \E r \in mine : r.id = t.group_prev_tx_id
            /\ \A t, r \in mine :
                 (t.group_prev_tx_id # NULL
                  /\ t.group_prev_tx_id = r.group_prev_tx_id) => t = r
            /\ Cardinality({t \in mine :
                   \A r \in mine : r.group_prev_tx_id # t.id}) = 1

\* C3 witness: a group with its PENDING, a REFUND and a SETTLEMENT.
C3_Witness ==
    \E g \in {t.group_tx_id : t \in txs} \ {NULL} :
        /\ \E t \in GroupOf(txs, g) : t.type = REFUND
        /\ \E t \in GroupOf(txs, g) : t.type = SETTLEMENT

\* C4 (as claimed): once a group holds a SETTLEMENT, every refund or settle
\* call on it is rejected and persists no event.
C4_ClosedGroupRejectsAppends ==
    [][\A c \in Callers :
          (/\ Completes(c)
           /\ sess'[c].op \in {"settle_transaction", "refund_pending_transaction"}
           /\ Settled(txs, sess'[c].args.group_tx_id))
          => (sess'[c].exc # "" /\ txs' = txs)]_vars

StalePrevEnds(c) ==
    /\ Completes(c)
    /\ sess'[c].op \in Appends
    /\ sess'[c].args.prev_tx_id # NULL
    /\ TargetAccount(txs, sess'[c]) # 0
    /\ \A h \in HeadsOf(txs, TargetAccount(txs, sess'[c])) :
         h.id # sess'[c].args.prev_tx_id

C7_SamePrevAtMostOne ==
    \A c1, c2 \in Callers :
        (/\ c1 # c2
         /\ sess[c1].pc = "done" /\ sess[c2].pc = "done"
         /\ sess[c1].op \in Appends /\ sess[c2].op \in Appends
         /\ sess[c1].obj.prev_tx_id # NULL
         /\ sess[c1].obj.prev_tx_id = sess[c2].obj.prev_tx_id
         /\ sess[c1].exc = "")
        => /\ sess[c2].exc # ""
           /\ {t \in txs : t.prev_tx_id = sess[c1].obj.prev_tx_id}
                = {sess[c1].obj}

\* C7 witness: two callers passed the same explicit prev_tx_id and ran
\* concurrently; one append is persisted, the other was rejected by the
\* uniqueness of prev_tx_id.
C7_Witness ==
    /\ sess[1].pc = "done" /\ sess[2].pc = "done"
    /\ sess[1].op \in Appends /\ sess[2].op \in Appends
    /\ sess[1].args.prev_tx_id # NULL
    /\ sess[1].args.prev_tx_id = sess[2].args.prev_tx_id
    /\ sess[1].seen = sess[2].seen
    /\ sess[1].exc = "" /\ sess[1].obj \in txs
    /\ sess[2].exc = "IntegrityError"
    /\ "tx_prev_tx_id_key" \in sess[2].violated

\* C8 (as claimed): an append that omits prev_tx_id is never rejected
\* because the head it read has been extended by another caller.
C8_NoPrevNeverSequencingFailure ==
    \A c \in Callers :
        (sess[c].pc = "done" /\ sess[c].op \in Appends
         /\ sess[c].args.prev_tx_id = NULL)
        => "tx_prev_tx_id_key" \notin sess[c].violated

\* C9: a write called with an idempotency key that a persisted event carries
\* fails and persists nothing, with or without prev_tx_id and under any
\* interleaving; idempotency keys are unique among the persisted events.
C9_IdempotencyKeyOnce ==
    [][/\ \A c \in Callers :
            (/\ Completes(c)
             /\ \E t \in txs :
                  t.idempotency_key = sess'[c].args.idempotency_key)
            => (sess'[c].exc # "" /\ txs' = txs /\ accounts' = accounts)
       /\ \A t, r \in txs' : t.idempotency_key = r.idempotency_key => t = r]_vars

\* C9 witness: an append that passed an explicit prev_tx_id (the head) and a
\* used idempotency key was rejected by the uniqueness of idempotency_key.
C9_Witness ==
    \E c \in Callers :
        /\ sess[c].pc = "done" /\ sess[c].op \in Appends
        /\ sess[c].args.idempotency_key # NoKey
        /\ sess[c].args.prev_tx_id # NULL
        /\ sess[c].exc = "IntegrityError"
        /\ sess[c].violated = {"tx_idempotency_key_key"}

\* C10: a failed call changes neither the persisted accounts nor the
\* persisted events (so no head and no balance either).
C10_FailedCallChangesNothing ==
    [][\A c \in Callers :
          (Completes(c) /\ sess'[c].exc # "")
          => (txs' = txs /\ accounts' = accounts)]_vars

\* C10 witness: a create_account whose account row was flushed and whose
\* NEW_ACCOUNT event the store rejected; no account row is left behind.
C10_Witness ==
    /\ sess[1].pc = "done" /\ sess[1].op = "create_account"
    /\ sess[1].exc = "IntegrityError"
    /\ "tx_idempotency_key_key" \in sess[1].violated
    /\ \A a \in accounts : a.name # sess[1].args.name

\* a create_pending_transaction of a negative amount, larger in magnitude
\* than the available balance of the head of its account, ends in this step
OverdrawEnds(c) ==
    /\ Completes(c)
    /\ sess'[c].op = "create_pending_transaction"
    /\ sess'[c].args.amount < 0
    /\ HeadsOf(txs, sess'[c].args.account_id) # {}
    /\ \A h \in HeadsOf(txs, sess'[c].args.account_id) :
         h.available_balance + sess'[c].args.amount < 0

GroupHeadsOf(rows, g) ==
    {t \in GroupOf(rows, g) : \A r \in GroupOf(rows, g) : r.group_prev_tx_id # t.id}
\* the PENDING events (group roots) that group_tx_id names
RootsOf(rows, g) == {t \in rows : t.id = g /\ t.type = PENDING}

\* C12 (as claimed): a refund is rejected and persists nothing whenever the
\* group head's pending_amount + amount exceeds zero; a refund of an open
\* credit group that brings pending_amount to exactly zero is accepted,
\* whatever other groups the account holds.
C12_OverRefundRejectedExactAccepted ==
    [][\A c \in Callers :
          (/\ Completes(c)
           /\ sess'[c].op = "refund_pending_transaction"
           /\ RootsOf(txs, sess'[c].args.group_tx_id) # {})
          => LET g == sess'[c].args.group_tx_id
                 amount == sess'[c].args.amount
             IN  \A h \in GroupHeadsOf(txs, g) :
                   /\ h.pending_amount + amount > 0
                      => (sess'[c].exc # "" /\ txs' = txs)
                   /\ (/\ amount > 0
                       /\ h.pending_amount + amount = 0
                       /\ \A root \in RootsOf(txs, g) : root.amount < 0
                       /\ ~Settled(txs, g))
                      => (/\ sess'[c].exc = ""
                          /\ sess'[c].obj.type = REFUND
                          /\ sess'[c].obj.pending_amount = 0
                          /\ txs' = txs \cup {sess'[c].obj})]_vars

\* C13: a refund_pending_transaction on a group whose root PENDING has a
\* positive amount always fails and persists nothing (with the ValueError of
\* the operation when the amount is positive and prev_tx_id is omitted or
\* names an event), and no REFUND event is ever in such a group.
C13_DebitGroupAdmitsNoRefund ==
    [][/\ \A c \in Callers :
            (/\ Completes(c)
             /\ sess'[c].op = "refund_pending_transaction"
             /\ \E root \in RootsOf(txs, sess'[c].args.group_tx_id) :
                  root.amount > 0)
            => /\ sess'[c].exc # ""
               /\ txs' = txs
               /\ (/\ sess'[c].args.amount > 0
                   /\ \/ sess'[c].args.prev_tx_id = NULL
                      \/ \E t \in txs : t.id = sess'[c].args.prev_tx_id)
                  => sess'[c].exc
                       = "ValueError: Can only refund credit transaction."
       /\ \A t \in txs' :
            t.type = REFUND
            => \E root \in RootsOf(txs', t.group_tx_id) : root.amount < 0]_vars

\* C13 witness: a refund of 1 on a group whose root is a pending debit was
\* refused as not being a credit, with that debit persisted.
C13_Witness ==
    /\ sess[1].pc = "done" /\ sess[1].op = "refund_pending_transaction"
    /\ sess[1].args.amount = 1
    /\ \E root \in RootsOf(txs, sess[1].args.group_tx_id) : root.amount > 0
    /\ sess[1].exc = "ValueError: Can only refund credit transaction."

\* the magnitude of the pending_amount at the head of the group rooted at t
Residual(t) ==
    LET h == TheOne(GroupHeadsOf(txs, t.id))
    IN  IF h.pending_amount < 0 THEN 0 - h.pending_amount ELSE h.pending_amount
\* the sum of the residuals of a set of group roots
RECURSIVE SumOfResiduals(_)
SumOfResiduals(S) ==
    IF S = {} THEN 0
    ELSE LET x == CHOOSE y \in S : TRUE
         IN  Residual(x) + SumOfResiduals(S \ {x})
\* the roots of the open (unsettled) credit groups of an account
OpenCreditRoots(account_id) ==
    {t \in EventsOf(txs, account_id) :
        t.type = PENDING /\ t.amount < 0 /\ ~Settled(txs, t.id)}

\* C14 (as claimed): for every account, the head's available_balance equals
\* the head's current_balance minus the sum of the magnitudes of the residual
\* pending_amount of the account's open credit groups.
C14_AvailableIsCurrentMinusHolds ==
    \A a \in accounts :
        \A h \in HeadsOf(txs, a.id) :
            h.available_balance
                = h.current_balance - SumOfResiduals(OpenCreditRoots(a.id))

\* the object caller c's call built and handed to the flush: in flight, or
\* persisted by a call that has returned
Built(c, op) ==
    /\ sess[c].op = op
    /\ \/ sess[c].pc = "begun"
       \/ sess[c].pc = "done" /\ sess[c].exc = ""
\* the event the object of caller c names as predecessor in its account
PrevOf(c) == {t \in txs : t.id = sess[c].obj.prev_tx_id}

\* C15: a create_pending_transaction with amount > 0 builds, and on success
\* appends, a PENDING event whose current_balance and available_balance equal
\* those of its predecessor, the head when prev_tx_id was omitted, and whose
\* pending_amount equals amount; its success leaves get_balance unchanged.
C15_PendingDebitKeepsBalances ==
    [][\A c \in Callers :
          (Built(c, "create_pending_transaction")' /\ sess'[c].args.amount > 0)
          => LET obj == sess'[c].obj
             IN  /\ obj.type = PENDING
                 /\ obj.amount = sess'[c].args.amount
                 /\ obj.pending_amount = sess'[c].args.amount
                 /\ \E p \in txs :
                      /\ p.id = obj.prev_tx_id
                      /\ obj.current_balance = p.current_balance
                      /\ obj.available_balance = p.available_balance
                      /\ (sess[c].pc = "idle" /\ sess'[c].args.prev_tx_id = NULL)
                         => p \in HeadsOf(txs, obj.account_id)
                 /\ (Completes(c)
                     => /\ txs' = txs \cup {obj}
                        /\ \A p \in txs :
                             p.id = obj.prev_tx_id
                             => p \in HeadsOf(txs, obj.account_id)
                        /\ HeadsOf(txs', obj.account_id) = {obj}
                        /\ get_balance(txs', obj.account_id)
                             = get_balance(txs, obj.account_id))]_vars

\* C15 witness: a pending debit of 2 was appended to an account whose head
\* had current_balance 2 and available_balance 1.
C15_Witness ==
    /\ sess[1].pc = "done" /\ sess[1].op = "create_pending_transaction"
    /\ sess[1].exc = "" /\ sess[1].args.amount = 2
    /\ sess[1].obj \in txs
    /\ sess[1].obj.current_balance = 2 /\ sess[1].obj.available_balance = 1
    /\ get_balance(txs, sess[1].obj.account_id).available = 1

\* C16: a create_pending_transaction with amount < 0 builds, and on success
\* appends, a PENDING event with current_balance equal to its predecessor's,
\* available_balance = prev_available_balance + amount (the predecessor's
\* available_balance plus amount) and pending_amount = amount.
C16_PendingCreditReducesAvailable ==
    [][\A c \in Callers :
          (Built(c, "create_pending_transaction")' /\ sess'[c].args.amount < 0)
          => LET obj == sess'[c].obj
             IN  /\ obj.type = PENDING
                 /\ obj.amount = sess'[c].args.amount
                 /\ obj.pending_amount = sess'[c].args.amount
                 /\ obj.available_balance
                      = obj.prev_available_balance + sess'[c].args.amount
                 /\ obj.current_balance = obj.prev_current_balance
                 /\ \E p \in txs :
                      /\ p.id = obj.prev_tx_id
                      /\ obj.current_balance = p.current_balance
                      /\ obj.available_balance
                           = p.available_balance + sess'[c].args.amount
                 /\ (Completes(c)
                     => /\ txs' = txs \cup {obj}
                        /\ \A p \in txs :
                             p.id = obj.prev_tx_id
                             => p \in HeadsOf(txs, obj.account_id)
                        /\ HeadsOf(txs', obj.account_id) = {obj})]_vars

\* C16 witness: a pending credit of 1 was appended after a head with
\* current_balance 2 and available_balance 2.
C16_Witness ==
    /\ sess[1].pc = "done" /\ sess[1].op = "create_pending_transaction"
    /\ sess[1].exc = "" /\ sess[1].args.amount = 0 - 1
    /\ sess[1].obj \in txs
    /\ sess[1].obj.prev_available_balance = 2
    /\ sess[1].obj.current_balance = 2 /\ sess[1].obj.available_balance = 1

\* the object of a settle or refund call of caller c is linked as the code
\* links it: its account predecessor p and its group predecessor gp exist,
\* gp is an event of the group; when the call begins in this step, gp is the
\* head of the group and, with prev_tx_id omitted, p is the head of the
\* account; when the call succeeds in this step, the object is the one event
\* added, p was the head of the account and gp the head of the group
LinkedInStep(c, p, gp) ==
    LET obj == sess'[c].obj
    IN  /\ p.id = obj.prev_tx_id
        /\ gp.id = obj.group_prev_tx_id
        /\ gp.group_tx_id = sess'[c].args.group_tx_id
        /\ obj.group_tx_id = sess'[c].args.group_tx_id
        /\ obj.prev_current_balance = p.current_balance
        /\ obj.prev_available_balance = p.available_balance
        /\ obj.group_prev_pending_amount = gp.pending_amount
        /\ sess[c].pc = "idle"
           => /\ gp \in GroupHeadsOf(txs, sess'[c].args.group_tx_id)
              /\ sess'[c].args.prev_tx_id = NULL
                 => p \in HeadsOf(txs, obj.account_id)
        /\ Completes(c)
           => /\ txs' = txs \cup {obj}
              /\ p \in HeadsOf(txs, obj.account_id)
              /\ gp \in GroupHeadsOf(txs, sess'[c].args.group_tx_id)

\* C17: settling a group whose root has amount > 0 builds, and on success
\* appends, a SETTLEMENT with amount = pending_amount = the pending_amount of
\* the group head, current_balance = prev_current_balance + pending_amount
\* and available_balance = prev_available_balance + pending_amount, the
\* prev_ balances being those of the account head at the time of the call.
C17_SettleDebit ==
    [][\A c \in Callers :
          (/\ Built(c, "settle_transaction")'
           /\ \E root \in RootsOf(txs, sess'[c].args.group_tx_id) :
                root.amount > 0)
          => LET obj == sess'[c].obj
             IN  /\ obj.type = SETTLEMENT
                 /\ obj.amount = obj.pending_amount
                 /\ obj.current_balance
                      = obj.prev_current_balance + obj.pending_amount
                 /\ obj.available_balance
                      = obj.prev_available_balance + obj.pending_amount
                 /\ \E p, gp \in txs :
                      /\ LinkedInStep(c, p, gp)
                      /\ obj.pending_amount = gp.pending_amount]_vars

\* C17 witness: a pending debit of 1 made at balances (0, 0) was settled when
\* the head of the account stood at (2, 2): the SETTLEMENT carries (3, 3).
C17_Witness ==
    /\ sess[1].pc = "done" /\ sess[1].op = "settle_transaction"
    /\ sess[1].exc = "" /\ sess[1].obj \in txs
    /\ \E root \in RootsOf(txs, sess[1].args.group_tx_id) :
         root.amount = 1 /\ root.current_balance = 0
    /\ sess[1].obj.prev_current_balance = 2
    /\ sess[1].obj.current_balance = 3 /\ sess[1].obj.available_balance = 3

\* C18: settling a group whose root has amount < 0, after any number of
\* partial refunds, builds, and on success appends, a SETTLEMENT with amount
\* = pending_amount = the residual pending_amount of the group head,
\* current_balance = prev_current_balance + pending_amount and
\* available_balance unchanged from the account head.
C18_SettleCredit ==
    [][\A c \in Callers :
          (/\ Built(c, "settle_transaction")'
           /\ \E root \in RootsOf(txs, sess'[c].args.group_tx_id) :
                root.amount < 0)
          => LET obj == sess'[c].obj
             IN  /\ obj.type = SETTLEMENT
                 /\ obj.amount = obj.pending_amount
                 /\ obj.current_balance
                      = obj.prev_current_balance + obj.pending_amount
                 /\ obj.available_balance = obj.prev_available_balance
                 /\ \E p, gp \in txs :
                      /\ LinkedInStep(c, p, gp)
                      /\ obj.pending_amount = gp.pending_amount
                      /\ obj.available_balance = p.available_balance]_vars

\* C18 witness: a pending credit of 2 was refunded by 1 and then settled:
\* the SETTLEMENT follows the REFUND in the group and carries amount -1.
C18_Witness ==
    /\ sess[1].pc = "done" /\ sess[1].op = "settle_transaction"
    /\ sess[1].exc = "" /\ sess[1].obj \in txs
    /\ \E root \in RootsOf(txs, sess[1].args.group_tx_id) : root.amount = 0 - 2
    /\ \E gp \in txs :
         gp.id = sess[1].obj.group_prev_tx_id /\ gp.type = REFUND
    /\ sess[1].obj.amount = 0 - 1 /\ sess[1].obj.pending_amount = 0 - 1
    /\ sess[1].obj.current_balance = sess[1].obj.prev_current_balance - 1

\* C19: a refund_pending_transaction(group, amount) builds, and on success
\* appends, a REFUND with pending_amount = the group head's pending_amount +
\* amount, available_balance = the account head's available_balance + amount
\* and current_balance unchanged from the account head.
C19_Refund ==
    [][\A c \in Callers :
          Built(c, "refund_pending_transaction")'
          => LET obj == sess'[c].obj
                 amount == sess'[c].args.amount
             IN  /\ obj.type = REFUND
                 /\ obj.amount = amount
                 /\ \E p, gp \in txs :
                      /\ LinkedInStep(c, p, gp)
                      /\ obj.pending_amount = gp.pending_amount + amount
                      /\ obj.available_balance = p.available_balance + amount
                      /\ obj.current_balance = p.current_balance]_vars

\* C19 witness: the second refund of 1 on a pending credit of 2 was appended:
\* its group predecessor is the first REFUND and its pending_amount is 0.
C19_Witness ==
    /\ sess[1].pc = "done" /\ sess[1].op = "refund_pending_transaction"
    /\ sess[1].exc = "" /\ sess[1].obj \in txs
    /\ sess[1].args.amount = 1
    /\ \E gp \in txs :
         /\ gp.id = sess[1].obj.group_prev_tx_id
         /\ gp.type = REFUND /\ gp.pending_amount = 0 - 1
    /\ sess[1].obj.pending_amount = 0
    /\ sess[1].obj.available_balance = sess[1].obj.prev_available_balance + 1

\* the prev_ balances of t are the balances of the event its prev_tx_id names
PrevBalancesMatch(t) ==
    t.prev_tx_id # NULL
    => \E p \in txs :
         /\ p.id = t.prev_tx_id
         /\ t.prev_current_balance = p.current_balance
         /\ t.prev_available_balance = p.available_balance

\* C20: every persisted event with a non-null prev_tx_id, and every object a
\* call has handed to the flush, has prev_current_balance and
\* prev_available_balance equal to the current_balance and available_balance
\* of the event its prev_tx_id references.
C20_PrevBalancesArePredecessors ==
    /\ \A t \in txs : PrevBalancesMatch(t)
    /\ \A c \in Callers : sess[c].pc = "begun" => PrevBalancesMatch(sess[c].obj)

\* C20 witness: an event was appended after a head with current_balance 2
\* and available_balance 1 and carries these as its prev_ balances, its own
\* balances being different.
C20_Witness ==
    /\ sess[1].pc = "done" /\ sess[1].exc = "" /\ sess[1].obj \in txs
    /\ sess[1].obj.prev_current_balance = 2
    /\ sess[1].obj.prev_available_balance = 1
    /\ sess[1].obj.available_balance # 1
    /\ \E p \in txs :
         /\ p.id = sess[1].obj.prev_tx_id
         /\ p.current_balance = 2 /\ p.available_balance = 1

\* the group predecessor of t is an event of t's group and account whose
\* pending_amount t carries as group_prev_pending_amount
GroupPrevMatches(t) ==
    \E r \in txs :
        /\ r.id = t.group_prev_tx_id
        /\ r.pending_amount = t.group_prev_pending_amount
        /\ r.group_tx_id = t.group_tx_id
        /\ r.account_id = t.account_id

\* C21: every persisted REFUND and SETTLEMENT event, and every such object a
\* call has handed to the flush, has group_prev_pending_amount equal to the
\* pending_amount of the event its group_prev_tx_id references, an event of
\* the same group and the same account; a root PENDING has
\* group_prev_pending_amount = 0.
C21_GroupPrevPendingAmount ==
    \A t \in txs \cup {sess[c].obj : c \in {d \in Callers : sess[d].pc = "begun"}} :
        /\ t.type \in {REFUND, SETTLEMENT} => GroupPrevMatches(t)
        /\ t.type = PENDING
           => (t.group_prev_pending_amount = 0 /\ t.group_prev_tx_id = NULL)

\* C21 witness: a SETTLEMENT is persisted whose group predecessor is a REFUND
\* with pending_amount -1, in a group whose root PENDING has amount -2.
C21_Witness ==
    \E t \in txs :
        /\ t.type = SETTLEMENT /\ t.group_prev_pending_amount = 0 - 1
        /\ \E r \in txs :
             r.id = t.group_prev_tx_id /\ r.type = REFUND
             /\ r.group_prev_pending_amount = 0 - 2
        /\ \E root \in RootsOf(txs, t.group_tx_id) :
             root.amount = 0 - 2 /\ root.group_prev_pending_amount = 0

\* the attributes of an event other than its id
NonIdFields ==
    {"idempotency_key", "account_id", "type", "amount", "pending_amount",
     "group_tx_id", "group_prev_tx_id", "group_prev_pending_amount",
     "prev_tx_id", "prev_current_balance", "prev_available_balance",
     "current_balance", "available_balance"}
\* the values an altered attribute f of event t may take: another type,
\* another id (null, the id of an event, an id of no event), or a number
\* one off
Alterations(t, f) ==
    (CASE f = "type" -> {NEW_ACCOUNT, PENDING, REFUND, SETTLEMENT}
       [] f \in {"group_tx_id", "group_prev_tx_id", "prev_tx_id"} ->
            {NULL, NonexistentId} \cup {r.id : r \in txs}
       [] OTHER -> {t[f] - 1, t[f] + 1}) \ {t[f]}
\* altering any one of the attributes `fields` of a persisted event and
\* recomputing the content hash gives a value other than the stored id
TamperDetected(fields) ==
    \A t \in txs : \A f \in fields : \A v \in Alterations(t, f) :
        tx_hash([t EXCEPT ![f] = v]) # t.id

\* C22 (as claimed): for every persisted event, changing the value of any
\* single non-id attribute and recomputing the content hash gives a value
\* different from the stored id.
C22_TamperDetectedOnEveryField == TamperDetected(NonIdFields)

\* every persisted event, and every object handed to the flush, carries as
\* id the content hash of its attributes as they are; an append that
\* returned, returned the id of the event it persisted
IdIsHashOfPersisted ==
    /\ \A t \in txs : t.id = tx_hash(t)
    /\ \A c \in Callers :
         /\ sess[c].pc = "begun" => sess[c].obj.id = tx_hash(sess[c].obj)
         /\ (sess[c].pc = "done" /\ sess[c].exc = "")
            => /\ sess[c].obj \in txs
               /\ sess[c].obj.id = tx_hash(sess[c].obj)
               /\ sess[c].op \in Appends => sess[c].value = sess[c].obj.id

\* C23 (as claimed): every persisted event's id equals the content hash of
\* its fields as persisted (no hashed field changes between the assignment of
\* the id and the insert, in create_account, create_pending_transaction,
\* settle_transaction and refund_pending_transaction), and the id returned by
\* each write operation is the id of the persisted event.
C23_IdIsHashAndIsReturned ==
    /\ IdIsHashOfPersisted
    /\ \A c \in Callers :
         (sess[c].pc = "done" /\ sess[c].exc = "" /\ sess[c].op = "create_account")
         => (Len(sess[c].value) = 2 /\ sess[c].value[2] = sess[c].obj.id)

\* C24 (as claimed): a create_account that succeeds returns the pair
\* (account_id, new_account_tx_id): the id of the account it persisted and
\* the id of that account's NEW_ACCOUNT event.
C24_CreateAccountReturnsPair ==
    \A c \in Callers :
        (sess[c].pc = "done" /\ sess[c].exc = "" /\ sess[c].op = "create_account")
        => /\ sess[c].obj \in txs /\ sess[c].obj.type = NEW_ACCOUNT
           /\ sess[c].value = <<sess[c].obj.account_id, sess[c].obj.id>>

\* a NEW_ACCOUNT event as create_account writes it: no amount, no balance,
\* no predecessor and no group
BlankNewAccount(t) ==
    /\ t.type = NEW_ACCOUNT
    /\ t.amount = 0 /\ t.pending_amount = 0 /\ t.group_prev_pending_amount = 0
    /\ t.current_balance = 0 /\ t.available_balance = 0
    /\ t.prev_current_balance = 0 /\ t.prev_available_balance = 0
    /\ t.prev_tx_id = NULL /\ t.group_tx_id = NULL /\ t.group_prev_tx_id = NULL

\* C25: a successful create_account persists exactly one account and exactly
\* one NEW_ACCOUNT event for it, with amount, pending_amount,
\* group_prev_pending_amount, both balances and both prev balances zero and
\* prev_tx_id, group_tx_id and group_prev_tx_id null; afterwards every
\* account has exactly one NEW_ACCOUNT event, no operation adds another, and
\* the store rejects the insert of a second one for the account.
C25_CreateAccountOnce ==
    [][/\ \A c \in Callers :
            (Completes(c) /\ sess'[c].op = "create_account" /\ sess'[c].exc = "")
            => LET obj == sess'[c].obj
               IN  /\ \E a \in accounts' \ accounts :
                        /\ accounts' = accounts \cup {a}
                        /\ a.name = sess'[c].args.name
                        /\ \A b \in accounts : b.id # a.id
                        /\ obj.account_id = a.id
                   /\ obj \notin txs /\ txs' = txs \cup {obj}
                   /\ BlankNewAccount(obj)
       /\ \A c \in Callers :
            (Completes(c) /\ sess'[c].op # "create_account")
            => /\ accounts' = accounts
               /\ \A t \in txs' \ txs : t.type # NEW_ACCOUNT
       /\ \A a \in accounts' :
            /\ Cardinality({t \in EventsOf(txs', a.id) : t.type = NEW_ACCOUNT}) = 1
            /\ \A key \in ExplicitKeys :
                 ~tx_only_one_new_account_tx_per_account_id(
                      new_account_tx(a.id, key), txs')
       /\ \A t \in txs' : t.type = NEW_ACCOUNT => BlankNewAccount(t)]_vars

\* C25 witness: a second account was created after an append to the first;
\* each of the two accounts has its one NEW_ACCOUNT event.
C25_Witness ==
    /\ sess[1].pc = "done" /\ sess[1].op = "create_account" /\ sess[1].exc = ""
    /\ Cardinality(accounts) = 2
    /\ sess[1].obj \in txs /\ sess[1].obj.account_id = 2
    /\ \E t \in txs : t.type = PENDING /\ t.account_id = 1
    /\ Cardinality({t \in txs : t.type = NEW_ACCOUNT}) = 2

\* C26: a create_account whose name an existing account carries fails (the
\* store rejects the account row on the uniqueness of the name) and creates
\* neither an account nor an event; account names are unique in every
\* reachable state.
C26_DuplicateNameFails ==
    [][/\ \A c \in Callers :
            (/\ Completes(c)
             /\ sess'[c].op = "create_account"
             /\ \E a \in accounts : a.name = sess'[c].args.name)
            => /\ sess'[c].exc = "IntegrityError"
               /\ "account_name_key" \in sess'[c].violated
               /\ accounts' = accounts /\ txs' = txs
       /\ \A a, b \in accounts' : a.name = b.name => a = b]_vars

\* C26 witness: with two accounts and an append persisted, a create_account
\* that reused the name of the first account, with a fresh idempotency key,
\* was rejected on the name alone.
C26_Witness ==
    /\ sess[1].pc = "done" /\ sess[1].op = "create_account"
    /\ sess[1].exc = "IntegrityError"
    /\ sess[1].violated = {"account_name_key"}
    /\ sess[1].args.idempotency_key = NoKey
    /\ Cardinality(accounts) = 2
    /\ \E a \in accounts : a.id = 1 /\ a.name = sess[1].args.name
    /\ \E t \in txs : t.type = PENDING

\* C27: the account row and its NEW_ACCOUNT event are committed together:
\* every committed account has its NEW_ACCOUNT event and every NEW_ACCOUNT
\* event its account; a create_account whose NEW_ACCOUNT event the store
\* rejects, the account row being flushed already, leaves no account row.
C27_AccountAndEventAtomic ==
    [][/\ \A a \in accounts' :
            \E t \in txs' : t.type = NEW_ACCOUNT /\ t.account_id = a.id
       /\ \A t \in txs' :
            t.type = NEW_ACCOUNT => \E a \in accounts' : a.id = t.account_id
       /\ \A c \in Callers :
            (/\ Completes(c)
             /\ sess'[c].op = "create_account"
             /\ sess'[c].exc # "")
            => /\ accounts' = accounts /\ txs' = txs
               /\ sess'[c].obj # NoTx
                  => \A a \in accounts' : a.id # sess'[c].obj.account_id]_vars

\* C27 witness: a create_account with a new name and the idempotency key of
\* a persisted event: the account row was flushed, the NEW_ACCOUNT event was
\* rejected on the key, and no account of that name or id is committed.
C27_Witness ==
    /\ sess[1].pc = "done" /\ sess[1].op = "create_account"
    /\ sess[1].exc = "IntegrityError"
    /\ sess[1].violated = {"tx_idempotency_key_key"}
    /\ sess[1].obj.type = NEW_ACCOUNT
    /\ accounts # {}
    /\ \A a \in accounts :
         a.name # sess[1].args.name /\ a.id # sess[1].obj.account_id
    /\ \E t \in txs : t.idempotency_key = sess[1].args.idempotency_key

\* C28: list_transactions(account) returns every persisted event of the
\* account exactly once and no event of another account, along the
\* prev_tx_id chain: the first element is the NEW_ACCOUNT event, the last is
\* the head, and each element's prev_tx_id is the id of the one before it.
C28_ListFollowsChain ==
    \A a \in accounts :
        LET listed == list_transactions(txs, a.id)
            l == listed.txs
        IN  /\ listed.exc = ""
            /\ {l[i] : i \in 1 .. Len(l)} = EventsOf(txs, a.id)
            /\ Len(l) = Cardinality(EventsOf(txs, a.id))
            /\ l[1].type = NEW_ACCOUNT /\ l[1].prev_tx_id = NULL
            /\ HeadsOf(txs, a.id) = {l[Len(l)]}
            /\ \A i \in 2 .. Len(l) : l[i].prev_tx_id = l[i - 1].id

\* C28 witness: two accounts; the list of the first has three elements and
\* ends with the SETTLEMENT the last call appended, the list of the second
\* has two and ends with a PENDING.
C28_Witness ==
    /\ Cardinality(accounts) = 2
    /\ Len(list_transactions(txs, 1).txs) = 3
    /\ Len(list_transactions(txs, 2).txs) = 2
    /\ list_transactions(txs, 1).txs[3].type = SETTLEMENT
    /\ list_transactions(txs, 2).txs[2].type = PENDING
    /\ sess[1].pc = "done" /\ sess[1].exc = ""
    /\ sess[1].obj = list_transactions(txs, 1).txs[3]

\* C29: get_latest_transaction(account) returns the event written by the
\* most recent successful append to the account, or its NEW_ACCOUNT event
\* when there was none, and get_balance(account) returns exactly that
\* event's current_balance and available_balance: a successful append makes
\* its event the latest of its account and leaves the latest of every other
\* account, a successful create_account makes the NEW_ACCOUNT event the
\* latest of the new account, and a failed call changes no latest event.
C29_LatestIsLastAppend ==
    [][/\ \A c \in Callers :
            (Completes(c) /\ sess'[c].exc = "")
            => LET obj == sess'[c].obj
               IN  /\ get_latest_transaction(txs', obj.account_id)
                        = [found |-> TRUE, tx |-> obj]
                   /\ sess'[c].op = "create_account" <=> obj.type = NEW_ACCOUNT
                   /\ \A a \in accounts :
                        a.id # obj.account_id
                        => get_latest_transaction(txs', a.id)
                             = get_latest_transaction(txs, a.id)
       /\ \A c \in Callers :
            (Completes(c) /\ sess'[c].exc # "")
            => \A a \in accounts' :
                 get_latest_transaction(txs', a.id)
                   = get_latest_transaction(txs, a.id)
       /\ \A a \in accounts' :
            LET latest == get_latest_transaction(txs', a.id)
            IN  /\ latest.found
                /\ latest.tx \in EventsOf(txs', a.id)
                /\ get_balance(txs', a.id)
                     = [exc |-> "", current |-> latest.tx.current_balance,
                        available |-> latest.tx.available_balance]]_vars

\* C29 witness: after a failed call, the latest event of the account is the
\* SETTLEMENT an earlier call appended and get_balance returns its balances
\* (2, 2), which differ from those of the event before it (0, 0).
C29_Witness ==
    /\ sess[1].pc = "done" /\ sess[1].exc # ""
    /\ \E a \in accounts :
         LET latest == get_latest_transaction(txs, a.id)
         IN  /\ latest.found /\ latest.tx.type = SETTLEMENT
             /\ latest.tx.prev_current_balance = 0
             /\ latest.tx.prev_available_balance = 0
             /\ get_balance(txs, a.id).current = 2
             /\ get_balance(txs, a.id).available = 2

\* C30: a settle_transaction or refund_pending_transaction whose group_tx_id
\* names no event, or names an event that is not a PENDING (a NEW_ACCOUNT,
\* REFUND or SETTLEMENT event), fails and persists nothing; a call that gets
\* as far as the lookup of the group fails with the ValueError of
\* _get_group_tx for the case.
C30_NotAGroupFails ==
    [][\A c \in Callers :
          (/\ Completes(c)
           /\ sess'[c].op \in {"settle_transaction", "refund_pending_transaction"}
           /\ RootsOf(txs, sess'[c].args.group_tx_id) = {})
          => /\ sess'[c].exc # ""
             /\ txs' = txs /\ accounts' = accounts
             /\ (sess'[c].op = "settle_transaction" \/ sess'[c].args.amount > 0)
                => sess'[c].exc
                     = (IF \E t \in txs : t.id = sess'[c].args.group_tx_id
                        THEN "ValueError: Transaction is not a Group ID."
                        ELSE "ValueError: Transaction group does not exist.")]_vars

\* C30 witness: a refund of 1 whose group_tx_id names a persisted REFUND
\* event was refused as not naming a group.
C30_Witness ==
    /\ sess[1].pc = "done" /\ sess[1].op = "refund_pending_transaction"
    /\ sess[1].args.amount = 1
    /\ \E t \in txs : t.id = sess[1].args.group_tx_id /\ t.type = REFUND
    /\ \E t \in txs : t.type = SETTLEMENT
    /\ sess[1].exc = "ValueError: Transaction is not a Group ID."

\* C31: the ledger is append-only: every step, of a successful or failed
\* call, keeps every persisted event and every persisted account as it is (a
\* row is the record of its field values, so a kept row is an unchanged row);
\* a step only adds rows.
C31_AppendOnly ==
    [][txs \subseteq txs' /\ accounts \subseteq accounts']_vars

\* C31 witness: with two accounts and four events persisted, among them a
\* SETTLEMENT, the last call was rejected by the store.
C31_Witness ==
    /\ sess[1].pc = "done" /\ sess[1].exc = "IntegrityError"
    /\ Cardinality(accounts) = 2 /\ Cardinality(txs) = 4
    /\ \E t \in txs : t.type = SETTLEMENT

\* an append called with an explicit prev_tx_id that names an event of
\* another account than the one it is made to, ends in this step
ForeignPrevEnds(c) ==
    /\ Completes(c)
    /\ sess'[c].op \in Appends
    /\ TargetAccount(txs, sess'[c]) # 0
    /\ \E t \in txs :
         /\ t.id = sess'[c].args.prev_tx_id
         /\ t.account_id # TargetAccount(txs, sess'[c])

\* C32: an append whose explicit prev_tx_id names an event of another
\* account than the one written to (the account_id argument, or the account
\* of the group) fails and persists nothing, also when that event is the
\* head of its own account; when the call gets as far as the insert the
\* store rejects the row on the (account_id, prev_tx_id) foreign key; and
\* every persisted event's prev_tx_id names an event of the same account.
C32_ForeignPrevFails ==
    [][/\ \A c \in Callers :
            ForeignPrevEnds(c)
            => /\ sess'[c].exc # ""
               /\ txs' = txs /\ accounts' = accounts
               /\ sess'[c].obj # NoTx
                  => /\ sess'[c].exc = "IntegrityError"
                     /\ "tx_account_id_prev_tx_id_fkey" \in sess'[c].violated
       /\ \A t \in txs' :
            t.prev_tx_id # NULL
            => \E p \in txs' :
                 p.id = t.prev_tx_id /\ p.account_id = t.account_id]_vars

\* C32 witness: an append to one account named the head of the other account
\* as prev_tx_id; the row broke no constraint but the (account_id,
\* prev_tx_id) foreign key and was rejected.
C32_Witness ==
    /\ sess[1].pc = "done" /\ sess[1].op \in Appends
    /\ sess[1].exc = "IntegrityError"
    /\ sess[1].violated = {"tx_account_id_prev_tx_id_fkey"}
    /\ \E t \in txs :
         /\ t.id = sess[1].args.prev_tx_id
         /\ t.account_id # sess[1].obj.account_id
         /\ t \in HeadsOf(txs, t.account_id)

\* the sum of the amounts of a set of events
RECURSIVE SumOfAmounts(_)
SumOfAmounts(S) ==
    IF S = {} THEN 0
    ELSE LET x == CHOOSE y \in S : TRUE
         IN  x.amount + SumOfAmounts(S \ {x})

\* C33: for every group, the pending_amount at the head of the group equals
\* the amount of the root PENDING plus the sum of the amounts of the REFUND
\* events of the group; along the chain of a credit group pending_amount
\* never decreases, stays <= 0 and is never below the root amount; in a
\* debit group every event's pending_amount equals the root amount.
C33_PendingAmountIsResidual ==
    \A root \in {t \in txs : t.type = PENDING} :
        LET mine == GroupOf(txs, root.id)
        IN  /\ GroupHeadsOf(txs, root.id) # {}
            /\ \A h \in GroupHeadsOf(txs, root.id) :
                 h.pending_amount
                   = root.amount
                       + SumOfAmounts({t \in mine : t.type = REFUND})
            /\ root.amount < 0
               => \A t \in mine :
                    /\ root.amount <= t.pending_amount /\ t.pending_amount <= 0
                    /\ \A gp \in mine :
                         gp.id = t.group_prev_tx_id
                         => gp.pending_amount <= t.pending_amount
            /\ root.amount > 0
               => \A t \in mine : t.pending_amount = root.amount

\* C33 witness: a credit group of -2 with a REFUND of 1 and, at its head, a
\* SETTLEMENT with pending_amount -1, next to a settled debit group of 2.
C33_Witness ==
    /\ \E root \in {t \in txs : t.type = PENDING /\ t.amount = 0 - 2} :
         /\ \E t \in GroupOf(txs, root.id) : t.type = REFUND /\ t.amount = 1
         /\ \E h \in GroupHeadsOf(txs, root.id) :
              h.type = SETTLEMENT /\ h.pending_amount = 0 - 1
    /\ \E root \in {t \in txs : t.type = PENDING /\ t.amount = 2} :
         \E h \in GroupHeadsOf(txs, root.id) :
            h.type = SETTLEMENT /\ h.pending_amount = 2

\* a call of refund_pending_transaction with amount <= 0 ends in this step
NonPositiveRefundEnds(c) ==
    /\ Completes(c)
    /\ sess'[c].op = "refund_pending_transaction"
    /\ sess'[c].args.amount <= 0

\* C34: refund_pending_transaction with amount <= 0 fails on the checks made
\* before the block is entered, whatever group_tx_id names: the call ends in
\* its first step with AssertionError (amount 0) or ValueError (amount < 0),
\* no event was computed, neither table changes, and so the head and the
\* pending_amount of every group and the balances of every account are the
\* same as before.
C34_NonPositiveRefundFails ==
    [][\A c \in Callers :
         NonPositiveRefundEnds(c)
         => /\ sess[c].pc = "idle"
            /\ sess'[c].exc \in {"AssertionError",
                                 "ValueError: Refund amount must be positive"}
            /\ sess'[c].obj = NoTx
            /\ sess'[c].value = NULL
            /\ txs' = txs /\ accounts' = accounts
            /\ \A g \in {t.id : t \in txs} :
                 GroupHeadsOf(txs', g) = GroupHeadsOf(txs, g)
            /\ \A a \in accounts :
                 get_balance(txs', a.id) = get_balance(txs, a.id)]_vars

\* C34 witness: a refund of -1 on an open credit group of -2 has just failed
\* with "Refund amount must be positive"; the group's head is still its root
\* and the balances of the account are still 2 and 0.
C34_Witness ==
    /\ sess[1].pc = "done"
    /\ sess[1].op = "refund_pending_transaction"
    /\ sess[1].args.amount = 0 - 1
    /\ sess[1].exc = "ValueError: Refund amount must be positive"
    /\ sess[1].obj = NoTx
    /\ \E root \in txs :
         /\ root.id = sess[1].args.group_tx_id
         /\ root.type = PENDING /\ root.amount = 0 - 2
         /\ GroupHeadsOf(txs, root.id) = {root}
         /\ get_balance(txs, root.account_id).current = 2
         /\ get_balance(txs, root.account_id).available = 0

\* C35 (as claimed): the content hash of a REFUND or SETTLEMENT event covers
\* its group_tx_id: an event equal to a persisted REFUND or SETTLEMENT in
\* every other attribute but with another group_tx_id has another id.
C35_GroupTxIdIsHashed ==
    \A t \in {r \in txs : r.type \in {REFUND, SETTLEMENT}} :
        \A v \in Alterations(t, "group_tx_id") :
            LET other == [t EXCEPT !.group_tx_id = v]
            IN  set_transaction_hash([other EXCEPT !.id = NULL]).id # t.id

C37_CurrentIsSumOfSettlements ==
    /\ \A a \in accounts :
         \A h \in HeadsOf(txs, a.id) :
            h.current_balance
              = SumOfAmounts({t \in EventsOf(txs, a.id) : t.type = SETTLEMENT})
    /\ \A t \in txs :
         t.type \in {PENDING, REFUND}
         => t.current_balance = t.prev_current_balance

\* C37 witness: an account with a settled debit of 2 and a credit of -2,
\* refunded by 1 and settled at -1: the head's current_balance is 1.
C37_Witness ==
    \E a \in accounts :
        LET mine == EventsOf(txs, a.id)
        IN  /\ \E t \in mine : t.type = SETTLEMENT /\ t.amount = 2
            /\ \E t \in mine : t.type = SETTLEMENT /\ t.amount = 0 - 1
            /\ \E t \in mine : t.type = REFUND /\ t.amount = 1
            /\ \E h \in HeadsOf(txs, a.id) : h.current_balance = 1

\* a settle_transaction call with no prev_tx_id and no idempotency key, on a
\* group that has its root PENDING and no SETTLEMENT, ends in this step
SettleOfOpenGroupEnds(c) ==
    /\ Completes(c)
    /\ sess'[c].op = "settle_transaction"
    /\ sess'[c].args.prev_tx_id = NULL
    /\ sess'[c].args.idempotency_key = NoKey
    /\ \E root \in txs :
         /\ root.id = sess'[c].args.group_tx_id
         /\ root.type = PENDING
         /\ ~Settled(txs, root.id)

ViewOf(rows, account_id) ==
    [events |-> EventsOf(rows, account_id),
     heads |-> HeadsOf(rows, account_id),
     latest |-> get_latest_transaction(rows, account_id),
     balance |-> get_balance(rows, account_id),
     listed |-> list_transactions(rows, account_id)]

\* C39: a call of create_pending_transaction, settle_transaction or
\* refund_pending_transaction, successful or failed, changes nothing of any
\* account other than the one it is made on (the account_id argument, or the
\* account of the group): its events, head, balances and listed chain are
\* the same after the call; a call on no account (group_tx_id names no
\* PENDING event) and a create_account change nothing of any existing
\* account; a successful append adds its event to the account it is made on.
C39_OtherAccountsUnchanged ==
    [][\A c \in Callers :
         Completes(c)
         => /\ sess'[c].op \in Appends
               => /\ \A a \in accounts :
                       a.id # TargetAccount(txs, sess'[c])
                       => ViewOf(txs', a.id) = ViewOf(txs, a.id)
                  /\ sess'[c].exc = ""
                     => sess'[c].obj.account_id = TargetAccount(txs, sess'[c])
            /\ sess'[c].op = "create_account"
               => \A a \in accounts : ViewOf(txs', a.id) = ViewOf(txs, a.id)]_vars

\* C39 witness: two accounts with three events each; a settle_transaction of
\* a debit of 2 on one of them has just succeeded, naming as prev_tx_id its
\* PENDING, and the other account's head is still its own SETTLEMENT with
\* balances 2 and 2.
C39_Witness ==
    /\ sess[1].pc = "done" /\ sess[1].op = "settle_transaction"
    /\ sess[1].exc = "" /\ sess[1].obj \in txs
    /\ sess[1].args.prev_tx_id = sess[1].args.group_tx_id
    /\ Cardinality(accounts) = 2
    /\ \A a \in accounts : Cardinality(EventsOf(txs, a.id)) = 3
    /\ \E a \in accounts :
         /\ a.id # sess[1].obj.account_id
         /\ get_latest_transaction(txs, a.id).tx.type = SETTLEMENT
         /\ get_balance(txs, a.id).current = 2
         /\ get_balance(txs, a.id).available = 2

\* the call of caller c names as group_tx_id a PENDING event of amount 0
ZeroGroup(c) ==
    \E root \in txs :
        /\ root.id = sess'[c].args.group_tx_id
        /\ root.type = PENDING /\ root.amount = 0

\* C40: a create_pending_transaction with amount 0 never fails on
\* InsufficientFund and, with prev_tx_id and idempotency key omitted,
\* succeeds; the PENDING event it builds is neither debit nor credit, has
\* pending_amount 0, is the root of its own group and has the balances of
\* its predecessor.  A refund_pending_transaction on such a group always
\* fails before an event is computed.  A settle_transaction on it builds a
\* SETTLEMENT with amount 0 and pending_amount 0 and the balances of its
\* predecessor, which with the optional arguments omitted is persisted when
\* the group has no SETTLEMENT yet, and leaves get_balance unchanged.
C40_ZeroPending ==
    [][\A c \in Callers :
         /\ (/\ Completes(c)
             /\ sess'[c].op = "create_pending_transaction"
             /\ sess'[c].args.amount = 0)
            => /\ sess'[c].exc # "InsufficientFund"
               /\ (/\ sess'[c].args.prev_tx_id = NULL
                   /\ sess'[c].args.idempotency_key = NoKey)
                  => sess'[c].exc = "" /\ sess'[c].obj \in txs'
         /\ (/\ Built(c, "create_pending_transaction")'
             /\ sess'[c].args.amount = 0)
            => LET obj == sess'[c].obj
               IN  /\ obj.type = PENDING
                   /\ obj.amount = 0 /\ obj.pending_amount = 0
                   /\ ~is_debit(obj) /\ ~is_credit(obj)
                   /\ obj.group_tx_id = obj.id
                   /\ obj.group_prev_tx_id = NULL
                   /\ \E p \in txs :
                        /\ p.id = obj.prev_tx_id
                        /\ obj.current_balance = p.current_balance
                        /\ obj.available_balance = p.available_balance
         /\ (/\ Completes(c)
             /\ sess'[c].op = "refund_pending_transaction"
             /\ ZeroGroup(c))
            => /\ sess'[c].exc # ""
               /\ sess'[c].obj = NoTx
               /\ sess[c].pc = "idle"
               /\ txs' = txs
         /\ (Built(c, "settle_transaction")' /\ ZeroGroup(c))
            => LET obj == sess'[c].obj
               IN  /\ obj.type = SETTLEMENT
                   /\ obj.amount = 0 /\ obj.pending_amount = 0
                   /\ \E p \in txs :
                        /\ p.id = obj.prev_tx_id
                        /\ obj.current_balance = p.current_balance
                        /\ obj.available_balance = p.available_balance
                   /\ Completes(c)
                      => get_balance(txs', obj.account_id)
                           = get_balance(txs, obj.account_id)
         /\ (/\ Completes(c)
             /\ sess'[c].op = "settle_transaction"
             /\ ZeroGroup(c)
             /\ ~Settled(txs, sess'[c].args.group_tx_id)
             /\ sess'[c].args.prev_tx_id = NULL
             /\ sess'[c].args.idempotency_key = NoKey)
            => sess'[c].exc = "" /\ sess'[c].obj \in txs']_vars

\* C40 witness: on an account with balances 2 and 2 a pending of amount 0
\* was appended and its group has just been settled: the SETTLEMENT has
\* amount 0 and the balances are still 2 and 2.
C40_Witness ==
    /\ sess[1].pc = "done" /\ sess[1].op = "settle_transaction"
    /\ sess[1].exc = "" /\ sess[1].obj \in txs
    /\ sess[1].obj.amount = 0
    /\ sess[1].obj.current_balance = 2 /\ sess[1].obj.available_balance = 2
    /\ \E root \in txs :
         /\ root.id = sess[1].obj.group_tx_id
         /\ root.type = PENDING /\ root.amount = 0
         /\ root.current_balance = 2 /\ root.available_balance = 2

====
